---- MODULE Spec2Model ----
(***************************************************************************)
(* Model of the nostrachat session engine: the receive task                *)
(* (Chat::print_incoming_events, chats.rs) that replays history and then   *)
(* streams live frames, the foreground send path (Chat::message_from,      *)
(* called from the loop of main, main.rs), the ratchet (crypto.rs) and the *)
(* printing handler (PrintingHandler, chats.rs).                           *)
(*                                                                         *)
(* The receive task is spawned on a clone of the chat (main.rs:135-137):   *)
(* the clone copies chain_key by value and shares ephemeral_keys, an       *)
(* Arc<Mutex<EphemeralKeyPair>>.  Every `lock().unwrap()` of the source is *)
(* a temporary guard dropped at the end of its statement, so each shared   *)
(* access is one atomic step; the steps of an activity between two shared  *)
(* accesses touch only its own data and are merged into the next access.   *)
(***************************************************************************)
EXTENDS Integers, Sequences, FiniteSets, TLC

\* ---------------------------------------------------------------- bounds
MaxFrames     == 4   \* channel session: frames delivered plus messages sent
MaxSends      == 1   \* channel session: messages sent
MaxPrivateOps == 4   \* private session: frames delivered plus messages sent

\* ------------------------------------------------------------ key material
\* A key pair is named by a number; the x-only public key of pair k is k.
LocalKey == 0       \* long-term identity of the user (config.privkey)
PeerKey  == 10      \* the configured contact / another channel member
NoKey    == 99      \* JSON null where a pubkey is expected

\* the keys a fresh random_key can be (see RandomKey)
EphemeralKeys == 1 .. MaxPrivateOps

Authors == {LocalKey, PeerKey} \cup EphemeralKeys

\* XOnlyPublicKey::public_key(Parity::Even)
EvenKey(x) == [x |-> x, parity |-> "Even"]

\* SharedSecret::new(&recipient_public_key, &secret_key)
SharedSecret(pk, sk) == [pk |-> pk, sk |-> sk]

\* Hkdf::<Sha256>::extract(None, ikm): the PRK is a one-way, collision-free
\* image of its input.  A chain key is the n-fold image of a shared secret.
ExtractSecret(ss) == [ikm |-> ss, n |-> 1]
ExtractChain(ck)  == [ikm |-> ck.ikm, n |-> ck.n + 1]

\* ratchet.expand(&shared_secret.secret_bytes(), &mut okm)
Expand(prk, ss) == [prk |-> prk, info |-> ss]

\* hex::encode: injective text encoding of the key material
HexEncode(okm) == [hex |-> okm]

\* RatchetProfile::new
NewChainKey  == ExtractSecret(SharedSecret(EvenKey(PeerKey), LocalKey))
NewEphemeral == [secret_key |-> LocalKey, recipient_public_key |-> EvenKey(PeerKey)]

\* ------------------------------------------------------------------ frames
\* kind: what the transport yields; tag: json_val[0] of a well-shaped frame;
\* sub: json_val[1] of an EVENT or EOSE frame; id, pubkey, created_at,
\* ekind, tags, content: json_val[2] of an EVENT frame; seq: arrival number.
NoFrame == [kind |-> "none", tag |-> "", sub |-> "", id |-> <<>>, pubkey |-> NoKey,
            created_at |-> 0, ekind |-> 0, tags |-> <<>>, content |-> <<>>, seq |-> 0]

\* SubscriptionId::generate() of the session's request
SessionSub == "session"

\* the events a relay delivers, as <<author, created_at>>: on a channel the
\* peer's at three times and one of the user's; on a private chat one less
Stored        == {<<PeerKey, 100>>, <<PeerKey, 300>>, <<PeerKey, 500>>, <<LocalKey, 300>>}
PrivateStored == {<<PeerKey, 100>>, <<PeerKey, 300>>, <<LocalKey, 300>>}

\* an event of a channel: kind 42, tagged with the root event
EventFrame(e) == [NoFrame EXCEPT !.kind = "json", !.tag = "EVENT", !.sub = SessionSub,
                                 !.id = e, !.pubkey = e[1], !.created_at = e[2],
                                 !.ekind = 42, !.tags = <<"e">>, !.content = <<"c">>]

\* an event of a private chat: kind 420, tagged with a recipient
PrivateEventFrame(e) == [EventFrame(e) EXCEPT !.ekind = 420, !.tags = <<"p">>]

TagFrames == {[NoFrame EXCEPT !.kind = "json", !.tag = g,
                              !.sub = IF g = "EOSE" THEN SessionSub ELSE ""] :
                g \in {"EOSE", "NOTICE", "OK", "FOO"}}

\* empty text, text that is not JSON, JSON that is no array with a string
\* first element, and a transport error / closed stream
OddFrames == {[NoFrame EXCEPT !.kind = k] : k \in {"empty", "notjson", "badshape", "error"}}

Frames        == {EventFrame(e) : e \in Stored} \cup TagFrames \cup OddFrames
PrivateFrames == {PrivateEventFrame(e) : e \in PrivateStored} \cup TagFrames \cup OddFrames

\* Chat::get_next_message
GetNextMessage(f) ==
  CASE f.kind = "error" -> "panic"
    [] f.kind \in {"empty", "notjson"} -> "Err"
    [] OTHER -> "Ok"

\* json_val[0].as_str().unwrap()
TagPanics(f) == f.kind = "badshape"

\* --------------------------------------------------------------- printing
\* small_rng.gen_range(1 .. 8): the upper end is excluded
DrawLow  == 1
DrawHigh == 8
Draws    == DrawLow .. (DrawHigh - 1)

\* the match arms of PrintingHandler::get_corresponding_color
PaletteSize == 8
NoColor     == 0

\* one line printed through the external printer (or println! for a NOTICE)
Line(f) == [what |-> f.tag, pubkey |-> f.pubkey, created_at |-> f.created_at,
            content |-> f.content, seq |-> f.seq]

\* RatchetProfile::decrypt_message: input + &hex::encode(message_key)
DecryptMessage(input, okm) == input \o <<HexEncode(okm)>>

\* RatchetProfile::encrypt_message: hex::encode(message_key), input unused
EncryptMessage(input, okm) == <<HexEncode(okm)>>

\* history.sort_by(|a, b| a_id.cmp(&b_id)): slice::sort_by is stable; an
\* element goes behind every element whose created_at is not larger.
RECURSIVE InsertByCreatedAt(_, _)
InsertByCreatedAt(s, e) ==
  IF s = <<>> THEN <<e>>
  ELSE IF s[Len(s)].created_at <= e.created_at THEN Append(s, e)
  ELSE Append(InsertByCreatedAt(SubSeq(s, 1, Len(s) - 1), e), s[Len(s)])

\* mutant: print_history without the sort
KeepArrivalOrder(s) == s

RECURSIVE SortByCreatedAt(_)
SortByCreatedAt(s) ==
  IF s = <<>> THEN <<>>
  ELSE InsertByCreatedAt(SortByCreatedAt(SubSeq(s, 1, Len(s) - 1)), s[Len(s)])

\* print_history on a buffer holding a frame that is no EVENT: with two or
\* more frames the comparator unwraps created_at of a frame without one;
\* with one frame print_formatted_message unwraps the key parsed from "null".
PrintHistoryPanics(h) == \E i \in 1 .. Len(h) : h[i].tag # "EVENT"

\* mutant: the loop of print_history starting one frame late
PrintHistoryLinesFromSecond(h) ==
  [i \in 1 .. (Len(h) - 1) |-> Line(SortByCreatedAt(h)[i + 1])]

\* mutant: print_history leaving out the events of the user
PrintHistoryLinesWithoutOwn(h) ==
  SelectSeq([i \in 1 .. Len(h) |-> Line(SortByCreatedAt(h)[i])],
            LAMBDA l : l.pubkey # LocalKey)

\* the lines print_history prints: the sorted buffer, one line per frame
PrintHistoryLines(h) == [i \in 1 .. Len(h) |-> Line(SortByCreatedAt(h)[i])]

\* the authors print_formatted_message meets in a sequence of lines
AuthorsOf(ls) == {ls[i].pubkey : i \in 1 .. Len(ls)}

\* mutant: print_message without the comparison with self.public_key
NeverSelfEcho(f) == FALSE

\* PrintingHandler::print_message, "EVENT" arm: the self-echo test
IsSelfEcho(f) == f.pubkey = LocalKey

\* ------------------------------------------------------------- diagnostics
\* Chat::get_next_message: eprintln!("Invalid JSON. {}", why) on text that
\* does not parse; the empty text returns Err without a line
ReadLog(f) == IF f.kind = "notjson" THEN <<"Invalid JSON">> ELSE <<>>

\* the tags the second loop of PrivateChat::print_incoming_events names
PrivateLiveTags == {"EVENT", "NOTICE", "OK", "EOSE"}

\* what the match of that loop writes to stderr: a blank line for a NOTICE,
\* "Unexpected event type: .." in the `&_` arm
PrivateLiveLog(f) ==
  IF f.tag = "NOTICE" THEN <<"">>
  ELSE IF f.tag \notin PrivateLiveTags THEN <<"Unexpected event type">>
  ELSE <<>>

\* what PrintingHandler::print_message writes to stderr: its `&_` arm is empty
PrintMessageLog(f) == <<>>

\* ------------------------------------------------------- subscribe request
\* Filter::default(): every field None.  An Option<Vec<_>> is the set of
\* the vectors it holds: {} for None, {v} for Some(v).
DefaultFilter == [ids |-> {}, authors |-> {}, kinds |-> {}, events |-> {},
                  pubkeys |-> {}]

\* self.root_event.id of the selected channel
RootEventId == "root"

\* mutant: the private filter restricted to events the contact wrote
BuildRequestMessageFromContact(v) ==
  [type |-> "REQ", sub |-> SessionSub,
   filters |-> IF v = "PublicChannel"
               THEN <<[DefaultFilter EXCEPT !.kinds = {<<42>>},
                                            !.events = {<<RootEventId>>}]>>
               ELSE <<[DefaultFilter EXCEPT !.kinds = {<<420>>},
                                            !.authors = {<<PeerKey>>}]>>]

\* Chat::build_request_message of the two variants:
\* ClientMessage::new_req(SubscriptionId::generate(), vec![filter])
BuildRequestMessage(v) ==
  [type |-> "REQ", sub |-> SessionSub,
   filters |-> IF v = "PublicChannel"
               THEN <<[DefaultFilter EXCEPT !.kinds = {<<42>>},
                                            !.events = {<<RootEventId>>}]>>
               ELSE <<[DefaultFilter EXCEPT !.kinds = {<<420>>}]>>]

\* -------------------------------------------------------- channel metadata
\* Metadata of a channel, as get_channel_list parsed it from the content of
\* the root event: name and about are Option<String>, {} for None
Metadatas == [name : {{}, {"name"}}, about : {{}, {"about"}}]

\* a channel whose root event gives both fields
FullMetadata == [name |-> {"name"}, about |-> {"about"}]

\* self.root_event.id.to_hex()
RootEventIdHex == "hex of root"

\* PublicChannel::get_name: the name, else the hex of the root event id
GetName(m) == IF m.name # {} THEN CHOOSE n \in m.name : TRUE ELSE RootEventIdHex

\* PublicChannel::get_info_table: self.metadata.about.as_ref().unwrap()
GetInfoTablePanics(m) == m.about = {}

\* PublicChannel::get_info_table: the lines that depend on the metadata,
\* and the ids of the root event
GetInfoTable(m) ==
  [name |-> IF m.name # {} THEN CHOOSE n \in m.name : TRUE ELSE "No name",
   about |-> CHOOSE a \in m.about : TRUE,
   event_id_hex |-> RootEventIdHex]

\* nothing printed by /channelinfo yet
NoInfo == [name |-> "", about |-> "", event_id_hex |-> ""]

\* ------------------------------------------------------------ ratchet lock
\* mutant: the guard bound to a name that outlives the statement
GuardKept(t) == t

\* the holder of the mutex once a statement `...lock().unwrap()...` of
\* activity t has run: the guard is a temporary, dropped with the statement
GuardDropped(t) == "none"

\* -------------------------------------------------------------------- state
VARIABLES
  variant,      \* ChatType selected in main: "PublicChannel" or "PrivateChat"
  phase,        \* which loop of print_incoming_events the receive task is in
  rpc,          \* receive task: "read", "decrypt" or "panicked"
  cur,          \* the frame the receive task is decoding (json_val)
  history,      \* history: Vec<Value> of print_incoming_events
  display,      \* what has been printed, in order
  colors,       \* PrintingHandler::pubkeys_to_colors
  chain,        \* chain_key of the clone held by "recv" and of the one held by "fg"
  eph,          \* the shared Arc<Mutex<EphemeralKeyPair>>
  fpc,          \* foreground: "prompt", "encrypt" or "tag"
  fkey,         \* message_from: random_key
  fenc,         \* message_from: enc_input
  sent,         \* frames written to the websocket by the foreground
  arrived,      \* the frames the transport has delivered, in order
  req,          \* the subscribe request written before the receive task starts
  stderr,       \* the lines the receive task has written with eprintln!
  holder,       \* who holds the MutexGuard of ephemeral_keys: "none", "recv", "fg"
  metadata,     \* PublicChannel::metadata of the selected channel
  info          \* the table /channelinfo printed last

vars == <<variant, phase, rpc, cur, history, display, colors, chain, eph,
          fpc, fkey, fenc, sent, arrived, req, stderr, holder, metadata, info>>

recvVars == <<phase, rpc, cur, history, display, colors, arrived, stderr>>
fgVars   == <<fpc, fkey, fenc, sent>>

\* the session main has set up when it enters its loop, on a chat of
\* variant v and, for a channel, of metadata m
Session(v, m) ==
  /\ variant = v
  /\ metadata = m
  /\ info = NoInfo
  /\ phase = "ReplayingHistory"
  /\ rpc = "read"
  /\ cur = NoFrame
  /\ history = <<>>
  /\ display = <<>>
  /\ colors = [a \in Authors |-> NoColor]
  /\ chain = [t \in {"recv", "fg"} |-> NewChainKey]
  /\ eph = NewEphemeral
  /\ fpc = "prompt"
  /\ fkey = LocalKey
  /\ fenc = <<>>
  /\ sent = <<>>
  /\ arrived = <<>>
  /\ req = BuildRequestMessage(variant)
  /\ stderr = <<>>
  /\ holder = "none"

Init == \E v \in {"PublicChannel", "PrivateChat"} : Session(v, FullMetadata)

\* ------------------------------------------------------- printing handler
\* print_formatted_message on each author of `who` in turn: an author
\* without a color draws one, an author with a color keeps it.
ColorsAfter(cs, draw) ==
  [a \in Authors |-> IF a \in DOMAIN draw THEN draw[a] ELSE cs[a]]

\* mutant: print_formatted_message inserting a color at every call
EveryAuthor(cs, ls) == AuthorsOf(ls)

\* !self.pubkeys_to_colors.contains_key(author_pubkey), for each author of ls
Uncolored(cs, ls) == {a \in AuthorsOf(ls) : cs[a] = NoColor}

\* print_formatted_message for the lines ls, appended to the terminal
PrintLines(ls) ==
  /\ display' = display \o ls
  /\ \E draw \in [Uncolored(colors, ls) -> Draws] : colors' = ColorsAfter(colors, draw)

\* PrintingHandler::print_history, called at the first EOSE, and the break
\* that leaves the history loop
PrintHistory ==
  IF PrintHistoryPanics(history)
  THEN /\ rpc' = "panicked"
       /\ UNCHANGED <<phase, history, display, colors>>
  ELSE /\ history' = SortByCreatedAt(history)
       /\ PrintLines(PrintHistoryLines(history))
       /\ phase' = "Live"
       /\ rpc' = "read"

\* the frame as the receive task holds it: the n-th frame delivered
Arrived(f) == [f EXCEPT !.seq = Len(arrived) + 1]

\* reader.next().await.unwrap() fails, or json_val[0].as_str().unwrap() does
ReadPanics(f) == GetNextMessage(f) = "panic" \/ (GetNextMessage(f) = "Ok" /\ TagPanics(f))

\* XOnlyPublicKey::from_str(&pubkey[1 .. pubkey.len() - 1]).unwrap() on a
\* frame whose json_val[2]["pubkey"] is null
PubkeyPanics(f) == f.pubkey = NoKey

\* ------------------------------------------------- receive task, channel
\* frames delivered and messages sent so far in a channel session
ChannelOps == Len(arrived) + Len(sent)

\* PublicChannel::print_incoming_events, first loop: one frame
ChannelReplay(f) ==
  /\ variant = "PublicChannel" /\ phase = "ReplayingHistory" /\ rpc = "read"
  /\ fpc # "panicked"
  /\ ChannelOps < MaxFrames
  /\ arrived' = Append(arrived, Arrived(f))
  /\ IF ReadPanics(f)
     THEN rpc' = "panicked" /\ UNCHANGED <<phase, history, display, colors>>
     ELSE IF GetNextMessage(f) = "Err"
     THEN UNCHANGED <<phase, rpc, history, display, colors>>
     ELSE IF f.tag = "EOSE"
     THEN PrintHistory
     ELSE /\ history' = Append(history, Arrived(f))
          /\ UNCHANGED <<phase, rpc, display, colors>>
  /\ stderr' = stderr \o ReadLog(f)
  /\ UNCHANGED <<variant, req, metadata, info, cur, chain, eph, holder>>
  /\ UNCHANGED fgVars

\* mutant: the second loop treating EOSE as the first loop does
PrintMessageFlushingAgain(f) ==
  IF f.tag = "EOSE" THEN PrintLines(PrintHistoryLines(history))
  ELSE IF f.tag = "EVENT" /\ ~IsSelfEcho(f) THEN PrintLines(<<Line(f)>>)
  ELSE IF f.tag = "NOTICE" THEN display' = Append(display, Line(f)) /\ UNCHANGED colors
  ELSE UNCHANGED <<display, colors>>

\* mutant: a Live event printed above the lines already there
PrintMessageNewestFirst(f) ==
  IF f.tag = "EVENT" /\ ~IsSelfEcho(f)
  THEN /\ display' = <<Line(f)>> \o display
       /\ \E draw \in [Uncolored(colors, <<Line(f)>>) -> Draws] :
            colors' = ColorsAfter(colors, draw)
  ELSE IF f.tag = "NOTICE" THEN display' = Append(display, Line(f)) /\ UNCHANGED colors
  ELSE UNCHANGED <<display, colors>>

\* PrintingHandler::print_message
PrintMessage(f) ==
  IF f.tag = "EVENT" /\ ~IsSelfEcho(f) THEN PrintLines(<<Line(f)>>)
  ELSE IF f.tag = "NOTICE" THEN display' = Append(display, Line(f)) /\ UNCHANGED colors
  ELSE UNCHANGED <<display, colors>>

\* PublicChannel::print_incoming_events, second loop: one frame
ChannelLive(f) ==
  /\ variant = "PublicChannel" /\ phase = "Live" /\ rpc = "read"
  /\ fpc # "panicked"
  /\ ChannelOps < MaxFrames
  /\ arrived' = Append(arrived, Arrived(f))
  /\ IF ReadPanics(f)
     THEN rpc' = "panicked" /\ UNCHANGED <<display, colors>>
     ELSE IF GetNextMessage(f) = "Err"
     THEN UNCHANGED <<rpc, display, colors>>
     ELSE PrintMessage(Arrived(f)) /\ UNCHANGED rpc
  /\ stderr' = stderr \o (IF ReadPanics(f) \/ GetNextMessage(f) = "Err"
                          THEN ReadLog(f) ELSE PrintMessageLog(f))
  /\ UNCHANGED <<variant, req, metadata, info, phase, history, cur, chain, eph, holder>>
  /\ UNCHANGED fgVars

\* ------------------------------------------------- receive task, private
\* frames delivered and messages begun so far in a private session
PrivateOps == Len(arrived) + Len(sent) + (IF fpc = "prompt" THEN 0 ELSE 1)

\* mutant: the peer key set from the session's configured contact
SetPeerKeyToContact(f) ==
  /\ holder = "none"
  /\ eph' = [eph EXCEPT !.recipient_public_key = EvenKey(PeerKey)]
  /\ holder' = GuardDropped("recv")

\* ...ephemeral_keys.lock().unwrap().recipient_public_key = <author key>
SetPeerKey(f) ==
  /\ holder = "none"
  /\ eph' = [eph EXCEPT !.recipient_public_key = EvenKey(f.pubkey)]
  /\ holder' = GuardDropped("recv")

\* PrivateChat::print_incoming_events, first loop, up to the write of the
\* peer key (chats.rs:159-171)
PrivateReplay(f) ==
  /\ variant = "PrivateChat" /\ phase = "ReplayingHistory" /\ rpc = "read"
  /\ PrivateOps < MaxPrivateOps
  /\ arrived' = Append(arrived, Arrived(f))
  /\ IF ReadPanics(f)
     THEN rpc' = "panicked" /\ UNCHANGED <<phase, history, display, colors, cur, eph, holder>>
     ELSE IF GetNextMessage(f) = "Err"
     THEN UNCHANGED <<phase, rpc, history, display, colors, cur, eph, holder>>
     ELSE IF f.tag = "EOSE"
     THEN PrintHistory /\ UNCHANGED <<cur, eph, holder>>
     ELSE IF PubkeyPanics(f)
     THEN rpc' = "panicked" /\ UNCHANGED <<phase, history, display, colors, cur, eph, holder>>
     ELSE /\ SetPeerKey(f)
          /\ cur' = Arrived(f)
          /\ rpc' = "decrypt"
          /\ UNCHANGED <<phase, history, display, colors>>
  /\ stderr' = stderr \o ReadLog(f)
  /\ UNCHANGED <<variant, req, metadata, info, chain>>
  /\ UNCHANGED fgVars

\* PrivateChat::print_incoming_events, second loop, up to the write of the
\* peer key (chats.rs:179-187)
PrivateLive(f) ==
  /\ variant = "PrivateChat" /\ phase = "Live" /\ rpc = "read"
  /\ PrivateOps < MaxPrivateOps
  /\ arrived' = Append(arrived, Arrived(f))
  /\ IF ReadPanics(f)
     THEN rpc' = "panicked" /\ UNCHANGED <<cur, eph, holder>>
     ELSE IF GetNextMessage(f) = "Ok" /\ f.tag = "EVENT"
     THEN SetPeerKey(f) /\ cur' = Arrived(f) /\ rpc' = "decrypt"
     ELSE UNCHANGED <<rpc, cur, eph, holder>>
  /\ stderr' = stderr \o (IF ReadPanics(f) \/ GetNextMessage(f) = "Err"
                          THEN ReadLog(f) ELSE PrivateLiveLog(f))
  /\ UNCHANGED <<variant, req, metadata, info, phase, history, display, colors, chain>>
  /\ UNCHANGED fgVars

\* mutant: rotate deriving the key material without storing the new chain key
RotateChainNotStored(t) == UNCHANGED chain

\* mutant: rotate deriving the next chain key from the keys under the lock
RotateChainFromEphemeral(t) ==
  chain' = [chain EXCEPT ![t] =
              [ikm |-> SharedSecret(eph.recipient_public_key, eph.secret_key), n |-> @.n + 1]]

\* RatchetProfile::rotate for the clone held by t: the chain key it leaves
\* behind (crypto.rs:35-36) ...
RotateChain(t) == chain' = [chain EXCEPT ![t] = ExtractChain(@)]

\* ... and the key material it returns (crypto.rs:37-52): expanded from the
\* new chain key and the shared secret of the two keys read under the lock.
\* The two reads are two lock acquisitions; between them the other activity
\* can only write the key this activity reads second (the receive task
\* writes recipient_public_key alone, the foreground secret_key alone), or
\* the one it has read already, which is the same as writing it before the
\* first read or after the second, so rotate is one step.
MessageKey(t) ==
  Expand(ExtractChain(chain[t]), SharedSecret(eph.recipient_public_key, eph.secret_key))

\* mutant: the decoded event attributed to the user
DecodeAsOwn(f, okm) == [f EXCEPT !.content = DecryptMessage(@, okm), !.pubkey = LocalKey]

\* json_val[2]["content"] = Value::String(decrypt_message(content))
Decode(f, okm) == [f EXCEPT !.content = DecryptMessage(@, okm)]

\* self.ratchet_profile.decrypt_message(...), then chats.rs:174 (push) or
\* chats.rs:189 (print)
RecvDecrypt ==
  /\ rpc = "decrypt"
  /\ holder = "none"
  /\ RotateChain("recv")
  /\ LET f == Decode(cur, MessageKey("recv")) IN
       IF phase = "ReplayingHistory"
       THEN history' = Append(history, f) /\ UNCHANGED <<display, colors>>
       ELSE PrintLines(<<Line(f)>>) /\ UNCHANGED history
  /\ cur' = NoFrame
  /\ rpc' = "read"
  /\ holder' = GuardDropped("recv")
  /\ UNCHANGED <<variant, req, metadata, info, phase, eph, arrived, stderr>>
  /\ UNCHANGED fgVars

\* -------------------------------------------------------------- foreground
\* the text the user typed at the prompt
Input == <<"m">>

\* SecretKey::new(&mut rng): a draw from the whole key space, which repeats
\* an earlier draw or hits a known key with negligible probability; the
\* n-th draw is key pair n.
RandomKey == Len(sent) + 1

\* mutant: every event signed with the long-term key
SignedByIdentity(kind, signer, recipient, content) ==
  [kind |-> kind, author |-> LocalKey, recipient |-> recipient, content |-> content]

\* ClientMessage::new_event(event) as written to the websocket
SignedEvent(kind, signer, recipient, content) ==
  [kind |-> kind, author |-> signer, recipient |-> recipient, content |-> content]

\* PublicChannel::message_from and writer.send (main.rs:165-166): signed
\* with the secret_key argument, the long-term key
ChannelSend ==
  /\ variant = "PublicChannel" /\ fpc = "prompt"
  /\ ChannelOps < MaxFrames /\ Len(sent) < MaxSends
  /\ sent' = Append(sent, SignedEvent(42, LocalKey, NoKey, Input))
  /\ UNCHANGED <<variant, req, metadata, info, chain, eph, fpc, fkey, fenc, holder>>
  /\ UNCHANGED recvVars

\* PrivateChat::message_from, chats.rs:217-220: draw random_key and store it
\* as the ephemeral secret key under the lock
FgNewKey ==
  /\ variant = "PrivateChat" /\ fpc = "prompt"
  /\ PrivateOps < MaxPrivateOps
  /\ holder = "none"
  /\ fkey' = RandomKey
  /\ eph' = [eph EXCEPT !.secret_key = RandomKey]
  /\ fpc' = "encrypt"
  /\ holder' = GuardDropped("fg")
  /\ UNCHANGED <<variant, req, metadata, info, chain, fenc, sent>>
  /\ UNCHANGED recvVars

\* chats.rs:221: self.ratchet_profile.encrypt_message(input)
FgEncrypt ==
  /\ fpc = "encrypt"
  /\ holder = "none"
  /\ RotateChain("fg")
  /\ fenc' = EncryptMessage(Input, MessageKey("fg"))
  /\ fpc' = "tag"
  /\ holder' = GuardDropped("fg")
  /\ UNCHANGED <<variant, req, metadata, info, eph, fkey, sent>>
  /\ UNCHANGED recvVars

\* "/channelinfo" (main.rs:156-158): println!("{}", chat.get_info_table(..))
\* on the main task, whose panic ends the process and the receive task with it
ChannelInfo ==
  /\ variant = "PublicChannel" /\ fpc = "prompt"
  /\ IF GetInfoTablePanics(metadata)
     THEN fpc' = "panicked" /\ UNCHANGED info
     ELSE info' = GetInfoTable(metadata) /\ UNCHANGED fpc
  /\ UNCHANGED <<variant, req, metadata, chain, eph, fkey, fenc, sent, holder>>
  /\ UNCHANGED recvVars

\* mutant: the guard of chats.rs:222 alive until writer.send has returned
FgSendHoldingGuard ==
  /\ fpc = "tag"
  /\ holder = "none"
  /\ sent' = Append(sent, SignedEvent(420, fkey, eph.recipient_public_key.x, fenc))
  /\ fpc' = "prompt"
  /\ holder' = "fg"
  /\ UNCHANGED <<variant, req, metadata, info, chain, eph, fkey, fenc>>
  /\ UNCHANGED recvVars

\* chats.rs:222-225 and writer.send: read recipient_public_key under the
\* lock for the p tag, sign with random_key
FgSend ==
  /\ fpc = "tag"
  /\ holder = "none"
  /\ sent' = Append(sent, SignedEvent(420, fkey, eph.recipient_public_key.x, fenc))
  /\ fpc' = "prompt"
  /\ holder' = GuardDropped("fg")
  /\ UNCHANGED <<variant, req, metadata, info, chain, eph, fkey, fenc>>
  /\ UNCHANGED recvVars

\* The relay's echo of the private messages sent so far: each is an event
\* of kind 420, which the session's own filter matches, written by the
\* key that signed it.
Echoes ==
  IF variant = "PrivateChat"
  THEN {[PrivateEventFrame(<<sent[i].author, 300>>) EXCEPT !.content = sent[i].content] :
          i \in DOMAIN sent}
  ELSE {}

\* ------------------------------------------------------------ specification
Next ==
  \/ \E f \in Frames : ChannelReplay(f)
  \/ \E f \in Frames : ChannelLive(f)
  \/ \E f \in PrivateFrames \cup Echoes : PrivateReplay(f)
  \/ \E f \in PrivateFrames \cup Echoes : PrivateLive(f)
  \/ RecvDecrypt
  \/ ChannelSend
  \/ FgNewKey
  \/ FgEncrypt
  \/ FgSend

Spec == Init /\ [][Next]_vars

\* The lock of ephemeral_keys is taken in private sessions only.  The
\* receive task is a future of its own on the multi-threaded runtime
\* (#[tokio::main], tokio::spawn at main.rs:137): a worker thread runs it
\* whenever it can take a step, while the main thread sits in prompt() or
\* between two statements of message_from.  The foreground gets no
\* fairness (the user may never type), nor does the transport (the relay
\* may never deliver).
PrivateInit == Init /\ variant = "PrivateChat"

\* the frames that take the receive task to the lock, to the flush or to
\* its end: events, EOSE, a transport error
LockFrames ==
  {f \in PrivateFrames : f.kind = "error" \/ (f.kind = "json" /\ f.tag \in {"EVENT", "EOSE"})}

PrivateNext ==
  \/ \E f \in LockFrames : PrivateReplay(f)
  \/ \E f \in LockFrames : PrivateLive(f)
  \/ RecvDecrypt
  \/ FgNewKey
  \/ FgEncrypt
  \/ FgSend

FairSpec == PrivateInit /\ [][PrivateNext]_vars /\ WF_vars(RecvDecrypt)

\* SubscriptionId::generate() of get_channel_list's request, which main
\* sends on the same connection before the session (main.rs:99, 119) and
\* never closes
ListSub == "channel list"

\* what the relay still owes that subscription when the session starts: a
\* root event (kind 40) of a channel created since, and its EOSE when
\* get_channel_list left its loop on a NOTICE
ListFrames ==
  {[EventFrame(<<PeerKey, 200>>) EXCEPT !.sub = ListSub, !.ekind = 40, !.tags = <<>>],
   [NoFrame EXCEPT !.kind = "json", !.tag = "EOSE", !.sub = ListSub]}

\* A channel of any metadata, with /channelinfo among the commands; the
\* relay delivers one stored event and EOSE, and the frames of the
\* channel-list subscription.
InfoInit == \E m \in Metadatas : Session("PublicChannel", m)

InfoFrames == {f \in Frames : f.kind = "json" /\ f.tag \in {"EVENT", "EOSE"}
                               /\ f.created_at \in {0, 100}}
              \cup ListFrames

InfoNext ==
  \/ \E f \in InfoFrames : ChannelReplay(f)
  \/ \E f \in InfoFrames : ChannelLive(f)
  \/ ChannelSend
  \/ ChannelInfo

InfoSpec == InfoInit /\ [][InfoNext]_vars

\* ======================================================================
\* Properties
\* ======================================================================
IsEvent(f) == f.kind = "json" /\ f.tag = "EVENT"
IsEose(f)  == f.kind = "json" /\ f.tag = "EOSE"

\* the arrival number of the first EOSE frame (0 when none has arrived)
FirstEose ==
  IF \E i \in DOMAIN arrived : IsEose(arrived[i])
  THEN CHOOSE i \in DOMAIN arrived :
         IsEose(arrived[i]) /\ \A j \in 1 .. (i - 1) : ~IsEose(arrived[j])
  ELSE 0

\* the printed lines that show events
EventLines == {j \in DOMAIN display : display[j].what = "EVENT"}

\* C1: the lines printed by the flush at the first EOSE, which are the first
\* Len(history) lines, show events in non-decreasing created_at order, and
\* events of equal created_at in the order they arrived.
C1_FlushSortedStable ==
  phase = "Live" =>
    /\ Len(display) >= Len(history)
    /\ \A i \in DOMAIN history : display[i].what = "EVENT"
    /\ \A i, j \in DOMAIN history :
         i < j => \/ display[i].created_at < display[j].created_at
                  \/ /\ display[i].created_at = display[j].created_at
                     /\ display[i].seq < display[j].seq

\* arrivals 500, 100, 300 were flushed as 100, 300, 500
C1_Witness ==
  /\ phase = "Live" /\ Len(history) = 3
  /\ <<arrived[1].created_at, arrived[2].created_at, arrived[3].created_at>> = <<500, 100, 300>>
  /\ <<display[1].created_at, display[2].created_at, display[3].created_at>> = <<100, 300, 500>>
  /\ <<display[1].seq, display[2].seq, display[3].seq>> = <<2, 3, 1>>

\* the step delivers the frame f' = arrived'[Len(arrived')]
Delivers == Len(arrived') = Len(arrived) + 1

\* C2: the stream leaves ReplayingHistory only in the step that handles the
\* first EOSE, it never returns, the first EOSE that the receive task
\* survives leaves it in Live, and an EOSE handled in Live changes nothing
\* of the session's state and prints nothing.
C2_EoseOnce ==
  [][ /\ (phase = "Live" => phase' = "Live")
      /\ (phase' # phase =>
            /\ Delivers /\ IsEose(arrived'[Len(arrived')])
            /\ \A i \in DOMAIN arrived : ~IsEose(arrived[i]))
      /\ (Delivers /\ IsEose(arrived'[Len(arrived')]) /\ phase = "ReplayingHistory"
            /\ rpc' # "panicked" => phase' = "Live")
      /\ (Delivers /\ IsEose(arrived'[Len(arrived')]) /\ phase = "Live" =>
            UNCHANGED <<phase, rpc, cur, history, display, colors, chain, eph>>)
    ]_vars

\* a second EOSE has been handled in Live after a flush that printed something
C2_Witness ==
  /\ phase = "Live" /\ rpc = "read" /\ display # <<>>
  /\ Len(arrived) > FirstEose /\ IsEose(arrived[Len(arrived)])

\* C3: nothing is printed in ReplayingHistory, where every EVENT delivered
\* is in the buffer (or being decoded on its way there); once Live, every
\* EVENT delivered before the first EOSE has exactly one line, the lines of
\* the flush are the buffer's, and they precede every line of a later frame.
C3_BufferedThenFlushedOnce ==
  /\ phase = "ReplayingHistory" =>
       /\ display = <<>>
       /\ \A i \in DOMAIN arrived : IsEvent(arrived[i]) =>
            \/ \E j \in DOMAIN history : history[j].seq = i
            \/ rpc = "decrypt" /\ cur.seq = i
  /\ phase = "Live" =>
       LET e == FirstEose
           shown == EventLines
       IN  /\ \A i \in 1 .. (e - 1) : IsEvent(arrived[i]) =>
                 Cardinality({j \in shown : display[j].seq = i}) = 1
           /\ \A j \in DOMAIN history : display[j] = Line(history[j])
           /\ \A j \in DOMAIN display : (j <= Len(history)) <=> (display[j].seq < e)

\* two buffered events have been flushed and a Live event printed after them
C3_Witness ==
  /\ phase = "Live" /\ Len(history) = 2 /\ Len(display) = 3
  /\ display[3].what = "EVENT" /\ display[3].seq > FirstEose

\* the lines of events delivered after the first EOSE, in printing order
LiveLines ==
  LET e == FirstEose IN SelectSeq(display, LAMBDA l : l.what = "EVENT" /\ l.seq > e)

\* the events delivered in Live that the session shows: on a channel those
\* of other authors, on a private chat all; less the one still being decoded
ShownLive ==
  LET e == FirstEose IN
  SelectSeq(arrived, LAMBDA f : /\ IsEvent(f) /\ f.seq > e
                                /\ (variant = "PublicChannel" => f.pubkey # LocalKey)
                                /\ ~(rpc = "decrypt" /\ cur.seq = f.seq))

\* C4: in Live the printed events are, in order, the events delivered in
\* Live: each is printed by the time the next frame is read, none is put
\* into the history buffer, none is printed out of arrival order.
C4_LiveInArrivalOrder ==
  phase = "Live" =>
    LET printed == LiveLines
        shown   == ShownLive
        e       == FirstEose
    IN  /\ Len(printed) = Len(shown)
        /\ \A i \in DOMAIN printed : printed[i].seq = shown[i].seq
        /\ \A j \in DOMAIN history : history[j].seq < e

\* two events delivered in Live have been printed
C4_Witness == phase = "Live" /\ Len(LiveLines) = 2

\* the chain key n rotations after ck
RECURSIVE Advanced(_, _)
Advanced(ck, n) == IF n = 0 THEN ck ELSE Advanced(ExtractChain(ck), n - 1)

\* messages whose encrypt_message has run, events whose decrypt_message has run
SendsRotated == Len(sent) + (IF fpc = "tag" THEN 1 ELSE 0)
EventsRotated ==
  Cardinality({i \in DOMAIN arrived :
                 IsEvent(arrived[i]) /\ ~(rpc = "decrypt" /\ cur.seq = i)})

\* C5: in a private session both activities see one chain key, the initial
\* one advanced once per message sent and once per EVENT received.
C5_OneSharedChain ==
  variant = "PrivateChat" =>
    \A t \in {"recv", "fg"} :
      chain[t] = Advanced(NewChainKey, SendsRotated + EventsRotated)

\* C6: a step changes a chain key only by replacing it with the one-way
\* derivation of its previous value, which differs from it and from every
\* value before it, and every decrypt_message and encrypt_message does so.
C6_ChainOnlyForward ==
  [][ /\ \A t \in {"recv", "fg"} :
           chain'[t] # chain[t] =>
             /\ chain'[t] = ExtractChain(chain[t])
             /\ chain'[t].ikm = NewChainKey.ikm
             /\ chain'[t].n > chain[t].n
      /\ (rpc = "decrypt" /\ rpc' = "read" => chain'["recv"] = ExtractChain(chain["recv"]))
      /\ (fpc = "encrypt" /\ fpc' = "tag" => chain'["fg"] = ExtractChain(chain["fg"]))
    ]_vars

\* one ratchet has rotated twice in a row and holds a third chain key
C6_Witness ==
  /\ chain["recv"] = Advanced(NewChainKey, 2)
  /\ chain["recv"] # Advanced(NewChainKey, 1)
  /\ chain["recv"] # NewChainKey

\* C7: while the receive task is between its write of the peer key and the
\* end of its rotate, the foreground takes no step on the ratchet state
\* (each of its steps in a private session is one), and while the
\* foreground is between its write of the ephemeral key and the end of its
\* rotate, the receive task takes none (those of its steps move rpc between
\* "read" and "decrypt").
C7_CriticalSection ==
  [][ /\ (rpc = "decrypt" => fpc' = fpc)
      /\ (fpc = "encrypt" => rpc' = rpc \/ rpc' = "panicked")
    ]_vars

\* the lines and buffered frames of events a private session has decoded
Decoded ==
  {history[j] : j \in DOMAIN history} \cup
  {[kind |-> "json", tag |-> "EVENT", pubkey |-> display[j].pubkey,
    created_at |-> display[j].created_at, content |-> display[j].content,
    seq |-> display[j].seq] : j \in EventLines}

\* what rotate read for a content made by decrypt_message or encrypt_message
KeysRead(content) == content[Len(content)].hex.info

\* C8: from the write of the peer key to the decode of the event, whatever
\* the foreground does in between, recipient_public_key is the even-parity
\* key of the event's author, and the key material of every decoded event
\* was derived from that key.
C8_PeerKeyIsAuthor ==
  variant = "PrivateChat" =>
    /\ rpc = "decrypt" => eph.recipient_public_key = EvenKey(cur.pubkey)
    /\ \A f \in Decoded : /\ Len(f.content) = 2
                          /\ KeysRead(f.content).pk = EvenKey(f.pubkey)

\* an event of an author other than the configured peer was decoded after
\* the foreground had stored a fresh key, once in each phase
C8_Witness ==
  /\ variant = "PrivateChat"
  /\ \E j \in DOMAIN history :
       /\ history[j].pubkey = LocalKey
       /\ KeysRead(history[j].content) = SharedSecret(EvenKey(LocalKey), 1)
  /\ \E j \in EventLines :
       /\ display[j].seq > FirstEose /\ display[j].pubkey = PeerKey
       /\ KeysRead(display[j].content).pk = EvenKey(PeerKey)

\* C9: a private message is signed with a key drawn for it, which is the
\* ephemeral secret key when rotate runs and the one its key material is
\* derived from; no two messages share it and it is never the long-term key.
C9_FreshEphemeralPerMessage ==
  variant = "PrivateChat" =>
    /\ fpc = "encrypt" => eph.secret_key = fkey
    /\ fpc = "tag" => KeysRead(fenc).sk = fkey
    /\ \A i \in DOMAIN sent :
         /\ sent[i].author # LocalKey
         /\ KeysRead(sent[i].content).sk = sent[i].author
         /\ \A j \in DOMAIN sent : j # i => sent[j].author # sent[i].author

\* two private messages have been sent, with an event decoded in between
C9_Witness ==
  /\ variant = "PrivateChat" /\ Len(sent) = 2
  /\ chain["recv"] # NewChainKey

Malformed(f) == f.kind \in {"empty", "notjson", "badshape"}

\* C10: the step that handles a malformed frame changes nothing but the
\* count of frames read: the receive task goes on to read the next frame.
C10_MalformedDropped ==
  [][ Delivers /\ Malformed(arrived'[Len(arrived')]) =>
        UNCHANGED <<phase, rpc, cur, history, display, colors, chain, eph>>
    ]_vars

\* a well-shaped frame whose tag is none of the four the protocol names
Unknown(f) == f.kind = "json" /\ f.tag \notin {"EVENT", "EOSE", "NOTICE", "OK"}

\* C11: in Live, in either variant, the step that handles a frame with an
\* unknown tag writes one warning line, prints nothing, leaves the ratchet
\* and the rest of the receive task's state as they were, and leaves the
\* receive task reading the next frame.
C11_UnknownTagWarned ==
  [][ Delivers /\ phase = "Live" /\ Unknown(arrived'[Len(arrived')]) =>
        /\ Len(stderr') = Len(stderr) + 1
        /\ UNCHANGED <<phase, rpc, cur, history, display, colors, chain, eph>>
    ]_vars

\* the transport has failed or closed under the receive task
TransportFailed == \E i \in DOMAIN arrived : arrived[i].kind = "error"

\* C12: once the receive task has hit a transport failure, the foreground
\* takes no further step: it neither starts nor continues nor sends a message.
C12_ReadFailureEndsSession ==
  [][ TransportFailed => UNCHANGED <<fpc, fkey, fenc, sent>> ]_vars

\* C13: on a channel in Live, the step that handles an EVENT of the user
\* prints nothing and colors nobody, and no line ever shows such an event;
\* the step that handles an EVENT of anyone else appends its line and
\* leaves its author with a color.
C13_SelfEchoSuppressed ==
  /\ [](variant = "PublicChannel" =>
          \A j \in EventLines :
            display[j].seq > FirstEose /\ FirstEose > 0 => display[j].pubkey # LocalKey)
  /\ [][ Delivers /\ variant = "PublicChannel" /\ phase = "Live"
           /\ IsEvent(arrived'[Len(arrived')]) =>
           LET f == arrived'[Len(arrived')] IN
             IF f.pubkey = LocalKey
             THEN UNCHANGED <<display, colors>>
             ELSE /\ display' = Append(display, Line(f))
                  /\ colors'[f.pubkey] \in Draws
       ]_vars

\* in Live a channel was delivered the user's event of time 300 and the
\* peer's event of time 300: only the peer's is shown, only the peer colored
C13_Witness ==
  /\ variant = "PublicChannel" /\ phase = "Live" /\ FirstEose = 1
  /\ \E i, k \in DOMAIN arrived :
       /\ IsEvent(arrived[i]) /\ arrived[i].pubkey = LocalKey
       /\ IsEvent(arrived[k]) /\ arrived[k].pubkey = PeerKey
       /\ arrived[i].created_at = arrived[k].created_at
       /\ arrived[i].content = arrived[k].content
  /\ Len(display) = 1 /\ display[1].pubkey = PeerKey
  /\ colors[LocalKey] = NoColor /\ colors[PeerKey] \in Draws

\* C14: a channel that has flushed shows every event of the user that was
\* buffered before the first EOSE, and a private session that has flushed
\* shows every event delivered and decoded, in either phase, whoever wrote it.
C14_SuppressionOnlyChannelLive ==
  phase = "Live" =>
    LET shown == EventLines IN
    /\ variant = "PublicChannel" =>
         \A i \in 1 .. (FirstEose - 1) :
           IsEvent(arrived[i]) /\ arrived[i].pubkey = LocalKey =>
             \E j \in shown : display[j].seq = i /\ display[j].pubkey = LocalKey
    /\ variant = "PrivateChat" =>
         \A i \in DOMAIN arrived :
           IsEvent(arrived[i]) /\ ~(rpc = "decrypt" /\ cur.seq = i) =>
             \E j \in shown : display[j].seq = i /\ display[j].pubkey = arrived[i].pubkey

\* a channel shows the user's event that was buffered, and does not show
\* the same event delivered again in Live
C14_Witness ==
  /\ variant = "PublicChannel" /\ phase = "Live"
  /\ \E j \in EventLines : display[j].pubkey = LocalKey /\ display[j].seq < FirstEose
  /\ \E i \in DOMAIN arrived :
       /\ i > FirstEose /\ IsEvent(arrived[i]) /\ arrived[i].pubkey = LocalKey
       /\ \A j \in DOMAIN display : display[j].seq # i

\* C15: whatever the foreground does or does not do, an event the
\* transport has delivered to the receive task is decoded and the task is
\* back reading; neither activity ever waits for the lock with the other
\* one holding it: the step each is about to take on the ratchet is enabled.
C15_ReceiveProgress ==
  /\ [](rpc = "decrypt" => ENABLED RecvDecrypt)
  /\ [](fpc = "encrypt" => ENABLED FgEncrypt)
  /\ [](fpc = "tag" => ENABLED FgSend)
  /\ (rpc = "decrypt" ~> rpc = "read")

\* an event delivered while the foreground was between its key write and
\* its rotate has been decoded with the foreground still there
C15_Witness ==
  /\ variant = "PrivateChat" /\ fpc = "encrypt" /\ rpc = "read"
  /\ \E f \in Decoded : KeysRead(f.content).sk = fkey

\* C16: the receive task awaiting the next frame does not hold the lock of
\* ephemeral_keys, nor does the foreground awaiting input or the write of
\* the frame it has built.
C16_NoLockAcrossSuspension ==
  /\ rpc = "read" => holder # "recv"
  /\ fpc = "prompt" => holder # "fg"

\* both activities have taken the lock and are back at their suspension
\* points: an event decoded, a message sent
C16_Witness ==
  /\ variant = "PrivateChat" /\ rpc = "read" /\ fpc = "prompt"
  /\ chain["recv"] # NewChainKey /\ Len(sent) >= 1
  /\ holder = "none"

\* C17: the chain key a ratchet holds is the initial shared secret's chain
\* key advanced once per rotation of that ratchet, whatever keys were in
\* ephemeral_keys at each rotation; the two ratchets of a private session,
\* built from one shared secret, hold equal chain keys whenever they have
\* rotated equally often.
C17_ChainFromSecretAlone ==
  variant = "PrivateChat" =>
    /\ chain["recv"] = Advanced(NewChainKey, EventsRotated)
    /\ chain["fg"] = Advanced(NewChainKey, SendsRotated)
    /\ (EventsRotated = SendsRotated => chain["recv"] = chain["fg"])

\* both ratchets have rotated twice, the one reading the keys of two
\* decoded events (one of them the user's), the other those of two sent
\* messages, and they hold the same chain key
C17_Witness ==
  /\ variant = "PrivateChat"
  /\ EventsRotated = 2 /\ Len(sent) = 2 /\ fpc = "prompt"
  /\ chain["recv"] = chain["fg"] /\ chain["fg"] # NewChainKey
  /\ \E f \in Decoded : f.pubkey = LocalKey
  /\ \E f, g \in Decoded : KeysRead(f.content) # KeysRead(g.content)
  /\ KeysRead(sent[1].content) # KeysRead(sent[2].content)

\* C18: once encrypt_message has encoded the text the user typed, decoding
\* its result with the same key material (expanded from the chain key the
\* rotation left and the shared secret it read) gives that text back.
C18_RoundTrip ==
  fpc = "tag" => DecryptMessage(fenc, Expand(chain["fg"], KeysRead(fenc))) = Input

\* C19: the subscribe request a session has written holds one filter: on a
\* channel with kinds [42] and events [root_event.id], on a private chat
\* with kinds [420] and neither authors nor ids nor events set.
C19_SubscribeFilters ==
  /\ req.type = "REQ" /\ Len(req.filters) = 1
  /\ variant = "PublicChannel" =>
       /\ req.filters[1].kinds = {<<42>>}
       /\ req.filters[1].events = {<<RootEventId>>}
  /\ variant = "PrivateChat" =>
       /\ req.filters[1].kinds = {<<420>>}
       /\ req.filters[1].authors = {} /\ req.filters[1].ids = {}
       /\ req.filters[1].events = {}

\* a private session whose request names no author has been delivered,
\* and has decoded, an event that its configured contact did not write
C19_Witness ==
  /\ variant = "PrivateChat" /\ req = BuildRequestMessage("PrivateChat")
  /\ req.filters[1].authors = {}
  /\ \E f \in Decoded : f.pubkey # PeerKey

\* C20: an author has a color exactly when a line shows an event of that
\* author, every color held is one of the palette's eight, and no step
\* changes or removes a color an author holds.
C20_ColorsWriteOnce ==
  /\ [](\A a \in Authors :
          /\ colors[a] # NoColor <=> \E j \in EventLines : display[j].pubkey = a
          /\ colors[a] # NoColor => colors[a] \in 1 .. PaletteSize)
  /\ [][\A a \in Authors : colors[a] # NoColor => colors'[a] = colors[a]]_vars

\* an author shown by the flush is shown again in Live, with a color
C20_Witness ==
  /\ phase = "Live"
  /\ \E j, k \in EventLines :
       /\ display[j].seq < FirstEose /\ display[k].seq > FirstEose
       /\ display[j].pubkey = display[k].pubkey
       /\ colors[display[j].pubkey] \in 1 .. PaletteSize

\* C21: on a channel of any metadata, get_name gives a text (the name, or
\* the id of the root event in its place), /channelinfo never ends the
\* foreground, and the table it prints shows the name and the about text
\* or a placeholder for each.
C21_MetadataNeverFails ==
  /\ GetName(metadata) \in {"name", RootEventIdHex}
  /\ fpc # "panicked"
  /\ info # NoInfo =>
       /\ info.name = (IF metadata.name = {} THEN "No name" ELSE "name")
       /\ info.about = (IF metadata.about = {} THEN "No about" ELSE "about")

\* C22: the step that decodes an event of a private session, in either
\* phase, works on the frame as it was delivered and changes its content
\* and nothing else: the frame it buffers, or the line it prints, is the
\* delivered frame's but for the content.
C22_DecodeRewritesContentOnly ==
  [][ rpc = "decrypt" /\ rpc' = "read" =>
        LET a == arrived[cur.seq] IN
          /\ cur = a
          /\ IF phase = "ReplayingHistory"
             THEN LET h == history'[Len(history')] IN
                    /\ history' = Append(history, [a EXCEPT !.content = h.content])
                    /\ h.content # a.content
             ELSE LET l == display'[Len(display')] IN
                    /\ display' = Append(display, Line([a EXCEPT !.content = l.content]))
                    /\ l.content # a.content
    ]_vars

\* an event was decoded into the buffer and flushed, another decoded in
\* Live: each still carries the id, author, time, kind and tags it came with
C22_Witness ==
  /\ variant = "PrivateChat" /\ phase = "Live" /\ rpc = "read"
  /\ \E j \in DOMAIN history :
       /\ Len(history[j].content) = 2
       /\ history[j] = [arrived[history[j].seq] EXCEPT !.content = history[j].content]
       /\ history[j].ekind = 420 /\ history[j].sub = SessionSub
  /\ \E j \in EventLines :
       /\ display[j].seq > FirstEose /\ Len(display[j].content) = 2
       /\ display[j].pubkey = arrived[display[j].seq].pubkey

\* a well-shaped frame tagged NOTICE or OK, or with an unknown tag
Aside(f) == f.kind = "json" /\ f.tag \notin {"EVENT", "EOSE"}

\* C23: in ReplayingHistory, in either variant, the step that handles a
\* NOTICE, OK or unknown frame leaves the buffer, the ratchet and the
\* receive task as they were, and the step that handles the first EOSE
\* flushes and leaves the stream in Live.
C23_ReplayToleratesAsides ==
  [][ Delivers /\ phase = "ReplayingHistory" =>
        LET f == arrived'[Len(arrived')] IN
          /\ Aside(f) => UNCHANGED <<phase, rpc, cur, history, display, chain, eph>>
          /\ IsEose(f) => phase' = "Live" /\ rpc' = "read"
    ]_vars

\* the chain key that rotate expanded into the key material of a content
\* made by decrypt_message or encrypt_message
ChainRead(content) == content[Len(content)].hex.prk

\* C24: once a private session has flushed, the k-th event of the sorted
\* buffer was decoded with the key material of the k-th rotation, and as
\* long as nothing has arrived since the flush, the peer key is the key of
\* the author of the last event of the sorted buffer.
C24_HistoryDecodedInSortedOrder ==
  variant = "PrivateChat" /\ phase = "Live" =>
    /\ \A k \in DOMAIN history :
         ChainRead(history[k].content) = Advanced(NewChainKey, k)
    /\ (history # <<>> /\ Len(arrived) = FirstEose =>
          eph.recipient_public_key = EvenKey(history[Len(history)].pubkey))

\* C25: the recipient tag of every private message sent names the peer key
\* that rotate read when it derived the key material of that message.
C25_TagMatchesRotate ==
  variant = "PrivateChat" =>
    \A i \in DOMAIN sent : sent[i].recipient = KeysRead(sent[i].content).pk.x

\* the keys that signed the private messages sent so far
SentKeys == {sent[i].author : i \in DOMAIN sent}

\* C26: in a private session the peer key is never a key this client
\* signed a message with, and the receive task's chain key has advanced
\* once per decoded event that is not the echo of such a message.
C26_EchoIgnored ==
  variant = "PrivateChat" =>
    /\ eph.recipient_public_key.x \notin SentKeys
    /\ chain["recv"] =
         Advanced(NewChainKey,
                  Cardinality({i \in DOMAIN arrived :
                                 /\ IsEvent(arrived[i]) /\ arrived[i].pubkey \notin SentKeys
                                 /\ ~(rpc = "decrypt" /\ cur.seq = i)}))

\* C27: the step that handles an EVENT or EOSE frame of a subscription
\* other than the session's own buffers, prints and decodes nothing and
\* leaves the phase as it was.
C27_OwnSubscriptionOnly ==
  [][ Delivers =>
        LET f == arrived'[Len(arrived')] IN
          (IsEvent(f) \/ IsEose(f)) /\ f.sub # req.sub =>
            UNCHANGED <<phase, cur, history, display, colors, chain, eph>>
    ]_vars

====
